---- MODULE Spec2Model ----
(***************************************************************************)
(* A model of the intel_pstate accessor crate (src/src/lib.rs).            *)
(*                                                                         *)
(* The program's state is the part of the file system it addresses: the    *)
(* kind of the path /sys/devices/system/cpu/intel_pstate and, below it,    *)
(* the three control files min_perf_pct, max_perf_pct and no_turbo, each a *)
(* sequence of characters with an access mode.  Every method of PState is  *)
(* an action; values() and set_values() are sequences of separate file     *)
(* operations and are modelled with one step per file operation, so that   *)
(* two callers can interleave.                                             *)
(***************************************************************************)
EXTENDS Integers, Sequences, FiniteSets, TLC

\* ------------------------------------------------------------- bounds ----

\* Longest file content enumerated in the parsing specification.
MaxLen == 3

\* Calls one caller makes on its handle.
MaxCalls == 2

\* ---------------------------------------------------------- constants ----

\* Largest value of the u8 type of min_perf_pct and max_perf_pct.
U8Max == 255

\* -------------------------------------------------------------- text -----

DigitChars == <<"0", "1", "2", "3", "4", "5", "6", "7", "8", "9">>

Digits == {DigitChars[i] : i \in 1..10}

DigitVal(c) == (CHOOSE i \in 1..10 : DigitChars[i] = c) - 1

\* char::is_whitespace, restricted to the characters the model uses.
WhiteSpace == {" ", "\n", "\t"}

\* format!("{}", n) for an unsigned integer: decimal, no sign, no padding.
RECURSIVE Format(_)
Format(n) ==
    IF n < 10 THEN <<DigitChars[n + 1]>>
    ELSE Format(n \div 10) \o <<DigitChars[(n % 10) + 1]>>

\* if no_turbo { "1" } else { "0" }
FormatBool(b) == IF b THEN <<"1">> ELSE <<"0">>

RECURSIVE TrimStart(_)
TrimStart(s) ==
    IF s # <<>> /\ Head(s) \in WhiteSpace THEN TrimStart(Tail(s)) ELSE s

RECURSIVE TrimEnd(_)
TrimEnd(s) ==
    IF s # <<>> /\ s[Len(s)] \in WhiteSpace
    THEN TrimEnd(SubSeq(s, 1, Len(s) - 1))
    ELSE s

\* str::trim
Trim(s) == TrimEnd(TrimStart(s))

\* The digit loop of u8::from_str: checked multiply and add; -1 is an error
\* (an invalid digit, or a value above U8Max).
RECURSIVE ParseDigits(_, _)
ParseDigits(s, acc) ==
    IF s = <<>> THEN acc
    ELSE IF Head(s) \notin Digits THEN -1
    ELSE IF acc * 10 + DigitVal(Head(s)) > U8Max THEN -1
    ELSE ParseDigits(Tail(s), acc * 10 + DigitVal(Head(s)))

\* <u8 as FromStr>::from_str: empty text and a lone sign are errors, one
\* leading "+" is skipped, "-" is no digit of an unsigned type.
ParseU8(s) ==
    IF s = <<>> THEN -1
    ELSE IF Len(s) = 1 /\ Head(s) \in {"+", "-"} THEN -1
    ELSE IF Head(s) = "+" THEN ParseDigits(Tail(s), 0)
    ELSE ParseDigits(s, 0)

\* ------------------------------------------------------------- state -----

Fields == {"min_perf_pct", "max_perf_pct", "no_turbo"}

Callers == {"c1", "c2"}

VARIABLES
    dir,      \* what /sys/devices/system/cpu/intel_pstate is: "dir", "file", "absent"
    files,    \* [Fields -> [mode: "rw" | "ro" | "absent", data: text]]
    handle,   \* [Callers -> BOOLEAN]: the caller holds a PState
    pc,       \* [Callers -> position]: "idle", or the next file operation of a call
    cur,      \* [Callers -> the call in progress, or the last one]
    acc,      \* [Callers -> the fields values() has read so far]
    ret,      \* [Callers -> the result of the last completed call]
    pre,      \* [Callers -> dir and files when the call started]
    log,      \* [Callers -> the file operations of the call, in order]
    prev,     \* [Callers -> the call completed before the last one, and its result]
    ncalls,   \* [Callers -> how many calls the caller has started on its handle]
    lastw     \* [Fields -> the caller whose write to the file succeeded last, or "none"]

vars == <<dir, files, handle, pc, cur, acc, ret, pre, log, prev, ncalls, lastw>>

\* PStateValues; a field not read yet is -1 (no_turbo: FALSE).
NoRec == [min_perf_pct |-> -1, max_perf_pct |-> -1, no_turbo |-> FALSE]

PStateValues(min, max, no_turbo) ==
    [min_perf_pct |-> min, max_perf_pct |-> max, no_turbo |-> no_turbo]

\* Results: Ok(()) / Ok(u8) / Ok(bool) / Ok(PStateValues) / Err(PStateError).
\* err is the PStateError variant, kind the io::ErrorKind it wraps, num and
\* flag the value a Set* variant carries.
OkUnit == [ok |-> TRUE, err |-> "none", kind |-> "none", num |-> -1, flag |-> FALSE, rec |-> NoRec]

OkNum(n) == [OkUnit EXCEPT !.num = n]

OkFlag(b) == [OkUnit EXCEPT !.flag = b]

OkRec(r) == [OkUnit EXCEPT !.rec = r]

Err(variant, kind, n, b) ==
    [ok |-> FALSE, err |-> variant, kind |-> kind, num |-> n, flag |-> b, rec |-> NoRec]

NoRet == Err("none", "none", -1, FALSE)

NoCall == [op |-> "none", num |-> -1, flag |-> FALSE, rec |-> NoRec]

Call(op, n, b, r) == [op |-> op, num |-> n, flag |-> b, rec |-> r]

\* ------------------------------------------------------------ file I/O ---

\* read_file: File::open, then read_to_string.
ReadFile(fs, f) ==
    IF fs[f].mode = "absent"
    THEN [ok |-> FALSE, kind |-> "NotFound", data |-> <<>>]
    ELSE [ok |-> TRUE, kind |-> "none", data |-> fs[f].data]

\* Mutant of WriteAll: the descriptor opened with append(true).
WriteAllAppend(old, bytes) == old \o bytes

\* write_all on a descriptor opened at offset 0 without truncate or append:
\* the bytes replace the head of the file, what lies beyond them stays.
WriteAll(old, bytes) ==
    IF Len(bytes) >= Len(old) THEN bytes
    ELSE bytes \o SubSeq(old, Len(bytes) + 1, Len(old))

\* Mutant of WriteFile: the file opened with create(true).
WriteFileCreate(fs, f, bytes) ==
    IF fs[f].mode = "absent"
    THEN [ok |-> TRUE, kind |-> "none",
          fs |-> [fs EXCEPT ![f] = [mode |-> "rw", data |-> bytes]]]
    ELSE IF fs[f].mode = "ro"
    THEN [ok |-> FALSE, kind |-> "PermissionDenied", fs |-> fs]
    ELSE [ok |-> TRUE, kind |-> "none",
          fs |-> [fs EXCEPT ![f].data = WriteAll(fs[f].data, bytes)]]

\* write_file: OpenOptions::new().write(true).open (no create), then write_all.
WriteFile(fs, f, bytes) ==
    IF fs[f].mode = "absent"
    THEN [ok |-> FALSE, kind |-> "NotFound", fs |-> fs]
    ELSE IF fs[f].mode = "ro"
    THEN [ok |-> FALSE, kind |-> "PermissionDenied", fs |-> fs]
    ELSE [ok |-> TRUE, kind |-> "none",
          fs |-> [fs EXCEPT ![f].data = WriteAll(fs[f].data, bytes)]]

\* Mutant of ParseFile: a parse error becomes the default value
\* (unwrap_or_default in place of map_err).
ParseFileDefault(fs, f) ==
    LET r == ReadFile(fs, f) IN
    IF ~r.ok THEN [ok |-> FALSE, kind |-> r.kind, num |-> -1]
    ELSE LET n == ParseU8(Trim(r.data)) IN
         IF n = -1 THEN [ok |-> TRUE, kind |-> "none", num |-> 0]
         ELSE [ok |-> TRUE, kind |-> "none", num |-> n]

\* parse_file::<u8, _>: read, trim, parse; a parse error becomes InvalidData.
ParseFile(fs, f) ==
    LET r == ReadFile(fs, f) IN
    IF ~r.ok THEN [ok |-> FALSE, kind |-> r.kind, num |-> -1]
    ELSE LET n == ParseU8(Trim(r.data)) IN
         IF n = -1 THEN [ok |-> FALSE, kind |-> "InvalidData", num |-> -1]
         ELSE [ok |-> TRUE, kind |-> "none", num |-> n]

\* One entry of log: a file operation of a call, and whether the getter or
\* setter that made it succeeded.
ReadOp(f, ok) == [kind |-> "read", file |-> f, bytes |-> <<>>, ok |-> ok]

WriteOp(f, bytes, ok) == [kind |-> "write", file |-> f, bytes |-> bytes, ok |-> ok]

\* ------------------------------------------------------------ methods ----

\* Mutant of PStateNew: path.exists() in place of path.is_dir().
PStateNewExists(d) ==
    IF d # "absent" THEN OkUnit ELSE Err("NotFound", "none", -1, FALSE)

\* PState::new
PStateNew(d) ==
    IF d = "dir" THEN OkUnit ELSE Err("NotFound", "none", -1, FALSE)

\* PState::min_perf_pct
MinPerfPct(fs) ==
    LET r == ParseFile(fs, "min_perf_pct") IN
    IF r.ok THEN OkNum(r.num) ELSE Err("GetMinPerf", r.kind, -1, FALSE)

\* PState::max_perf_pct
MaxPerfPct(fs) ==
    LET r == ParseFile(fs, "max_perf_pct") IN
    IF r.ok THEN OkNum(r.num) ELSE Err("GetMaxPerf", r.kind, -1, FALSE)

\* Mutant of NoTurbo: value == 1 in place of value > 0.
NoTurboIsOne(fs) ==
    LET r == ParseFile(fs, "no_turbo") IN
    IF r.ok THEN OkFlag(r.num = 1) ELSE Err("GetNoTurbo", r.kind, -1, FALSE)

\* PState::no_turbo
NoTurbo(fs) ==
    LET r == ParseFile(fs, "no_turbo") IN
    IF r.ok THEN OkFlag(r.num > 0) ELSE Err("GetNoTurbo", r.kind, -1, FALSE)

\* PState::set_min_perf_pct: the result and the files afterwards.
SetMinPerfPct(fs, min) ==
    LET w == WriteFile(fs, "min_perf_pct", Format(min)) IN
    [ret |-> IF w.ok THEN OkUnit ELSE Err("SetMinPerf", w.kind, min, FALSE),
     fs |-> w.fs]

\* PState::set_max_perf_pct
SetMaxPerfPct(fs, max) ==
    LET w == WriteFile(fs, "max_perf_pct", Format(max)) IN
    [ret |-> IF w.ok THEN OkUnit ELSE Err("SetMaxPerf", w.kind, max, FALSE),
     fs |-> w.fs]

\* PState::set_no_turbo
SetNoTurbo(fs, no_turbo) ==
    LET w == WriteFile(fs, "no_turbo", FormatBool(no_turbo)) IN
    [ret |-> IF w.ok THEN OkUnit ELSE Err("SetNoTurbo", w.kind, -1, no_turbo),
     fs |-> w.fs]

\* ------------------------------------------------------------ actions ----

Snapshot == [dir |-> dir, files |-> files]

\* A call that is one file operation (or none): it starts and returns in
\* one step.
Complete(p, call, r, ops) ==
    /\ ncalls' = [ncalls EXCEPT ![p] = @ + 1]
    /\ cur' = [cur EXCEPT ![p] = call]
    /\ ret' = [ret EXCEPT ![p] = r]
    /\ pre' = [pre EXCEPT ![p] = Snapshot]
    /\ log' = [log EXCEPT ![p] = ops]
    /\ prev' = [prev EXCEPT ![p] = [call |-> cur[p], ret |-> ret[p]]]
    /\ UNCHANGED <<pc, acc>>

\* The first file operation of values() or set_values(): the call starts,
\* and returns at once when the operation failed.
Start(p, call, r, op, next) ==
    /\ ncalls' = [ncalls EXCEPT ![p] = @ + 1]
    /\ cur' = [cur EXCEPT ![p] = call]
    /\ ret' = [ret EXCEPT ![p] = IF r.ok THEN NoRet ELSE r]
    /\ pc' = [pc EXCEPT ![p] = IF r.ok THEN next ELSE "idle"]
    /\ pre' = [pre EXCEPT ![p] = Snapshot]
    /\ log' = [log EXCEPT ![p] = <<op>>]
    /\ prev' = [prev EXCEPT ![p] = [call |-> cur[p], ret |-> ret[p]]]

\* A later file operation of the call: `?` returns the error at once.
Continue(p, r, op, next) ==
    /\ ret' = [ret EXCEPT ![p] = IF r.ok THEN NoRet ELSE r]
    /\ pc' = [pc EXCEPT ![p] = IF r.ok THEN next ELSE "idle"]
    /\ log' = [log EXCEPT ![p] = Append(log[p], op)]
    /\ UNCHANGED <<cur, pre, prev, ncalls>>

\* The last file operation of the call: its result is the call's.
Finish(p, r, op) ==
    /\ ret' = [ret EXCEPT ![p] = r]
    /\ pc' = [pc EXCEPT ![p] = "idle"]
    /\ log' = [log EXCEPT ![p] = Append(log[p], op)]
    /\ UNCHANGED <<cur, pre, prev, ncalls>>

\* The caller may start a call on its handle.
Ready(p) == pc[p] = "idle" /\ handle[p] /\ ncalls[p] < MaxCalls

New(p) ==
    /\ pc[p] = "idle" /\ ~handle[p]
    /\ handle' = [handle EXCEPT ![p] = PStateNew(dir).ok]
    /\ cur' = [cur EXCEPT ![p] = Call("new", -1, FALSE, NoRec)]
    /\ ret' = [ret EXCEPT ![p] = PStateNew(dir)]
    /\ pre' = [pre EXCEPT ![p] = Snapshot]
    /\ log' = [log EXCEPT ![p] = <<>>]
    /\ UNCHANGED <<dir, files, pc, acc, prev, ncalls, lastw>>

GetMin(p) ==
    /\ Ready(p)
    /\ LET r == MinPerfPct(files) IN
       Complete(p, Call("min_perf_pct", -1, FALSE, NoRec), r,
                <<ReadOp("min_perf_pct", r.ok)>>)
    /\ UNCHANGED <<dir, files, handle, lastw>>

GetMax(p) ==
    /\ Ready(p)
    /\ LET r == MaxPerfPct(files) IN
       Complete(p, Call("max_perf_pct", -1, FALSE, NoRec), r,
                <<ReadOp("max_perf_pct", r.ok)>>)
    /\ UNCHANGED <<dir, files, handle, lastw>>

GetNoTurbo(p) ==
    /\ Ready(p)
    /\ LET r == NoTurbo(files) IN
       Complete(p, Call("no_turbo", -1, FALSE, NoRec), r,
                <<ReadOp("no_turbo", r.ok)>>)
    /\ UNCHANGED <<dir, files, handle, lastw>>

SetMin(p, min) ==
    /\ Ready(p)
    /\ LET s == SetMinPerfPct(files, min) IN
       /\ files' = s.fs
       /\ lastw' = IF s.ret.ok THEN [lastw EXCEPT !["min_perf_pct"] = p] ELSE lastw
       /\ Complete(p, Call("set_min_perf_pct", min, FALSE, NoRec), s.ret,
                   <<WriteOp("min_perf_pct", Format(min), s.ret.ok)>>)
    /\ UNCHANGED <<dir, handle>>

SetMax(p, max) ==
    /\ Ready(p)
    /\ LET s == SetMaxPerfPct(files, max) IN
       /\ files' = s.fs
       /\ lastw' = IF s.ret.ok THEN [lastw EXCEPT !["max_perf_pct"] = p] ELSE lastw
       /\ Complete(p, Call("set_max_perf_pct", max, FALSE, NoRec), s.ret,
                   <<WriteOp("max_perf_pct", Format(max), s.ret.ok)>>)
    /\ UNCHANGED <<dir, handle>>

SetNt(p, no_turbo) ==
    /\ Ready(p)
    /\ LET s == SetNoTurbo(files, no_turbo) IN
       /\ files' = s.fs
       /\ lastw' = IF s.ret.ok THEN [lastw EXCEPT !["no_turbo"] = p] ELSE lastw
       /\ Complete(p, Call("set_no_turbo", -1, no_turbo, NoRec), s.ret,
                   <<WriteOp("no_turbo", FormatBool(no_turbo), s.ret.ok)>>)
    /\ UNCHANGED <<dir, handle>>

\* PState::values, line 124: self.min_perf_pct()?
ValuesMin(p) ==
    /\ Ready(p)
    /\ LET r == MinPerfPct(files) IN
       /\ acc' = [acc EXCEPT ![p] = [NoRec EXCEPT !.min_perf_pct = r.num]]
       /\ Start(p, Call("values", -1, FALSE, NoRec), r,
                ReadOp("min_perf_pct", r.ok), "v_max")
    /\ UNCHANGED <<dir, files, handle, lastw>>

\* Mutant of ValuesMax: the error of max_perf_pct() is dropped (no `?`) and
\* values() reads on.
ValuesMaxUnchecked(p) ==
    /\ pc[p] = "v_max"
    /\ LET r == MaxPerfPct(files) IN
       /\ acc' = [acc EXCEPT ![p].max_perf_pct = IF r.ok THEN r.num ELSE 0]
       /\ Continue(p, OkUnit, ReadOp("max_perf_pct", r.ok), "v_nt")
    /\ UNCHANGED <<dir, files, handle, lastw>>

\* Mutant of ValuesMax: max_perf_pct is filled from self.min_perf_pct().
ValuesMaxReadsMin(p) ==
    /\ pc[p] = "v_max"
    /\ LET r == MinPerfPct(files) IN
       /\ acc' = [acc EXCEPT ![p].max_perf_pct = r.num]
       /\ Continue(p, r, ReadOp("max_perf_pct", r.ok), "v_nt")
    /\ UNCHANGED <<dir, files, handle, lastw>>

\* PState::values, line 125: self.max_perf_pct()?
ValuesMax(p) ==
    /\ pc[p] = "v_max"
    /\ LET r == MaxPerfPct(files) IN
       /\ acc' = [acc EXCEPT ![p].max_perf_pct = r.num]
       /\ Continue(p, r, ReadOp("max_perf_pct", r.ok), "v_nt")
    /\ UNCHANGED <<dir, files, handle, lastw>>

\* PState::values, lines 126-129: self.no_turbo()?, then Ok(values)
ValuesNt(p) ==
    /\ pc[p] = "v_nt"
    /\ LET r == NoTurbo(files) IN
       /\ acc' = [acc EXCEPT ![p].no_turbo = r.flag]
       /\ Finish(p, IF r.ok THEN OkRec([acc[p] EXCEPT !.no_turbo = r.flag]) ELSE r,
                 ReadOp("no_turbo", r.ok))
    /\ UNCHANGED <<dir, files, handle, lastw>>

\* PState::set_values, line 134: self.set_min_perf_pct(values.min_perf_pct)?
SetValuesMin(p, values) ==
    /\ Ready(p)
    /\ LET s == SetMinPerfPct(files, values.min_perf_pct) IN
       /\ files' = s.fs
       /\ lastw' = IF s.ret.ok THEN [lastw EXCEPT !["min_perf_pct"] = p] ELSE lastw
       /\ Start(p, Call("set_values", -1, FALSE, values), s.ret,
                WriteOp("min_perf_pct", Format(values.min_perf_pct), s.ret.ok), "sv_max")
    /\ UNCHANGED <<dir, handle, acc>>

\* Mutant of SetValuesMax: set_max_perf_pct is given values.min_perf_pct.
SetValuesMaxWritesMin(p) ==
    /\ pc[p] = "sv_max"
    /\ LET s == SetMaxPerfPct(files, cur[p].rec.min_perf_pct) IN
       /\ files' = s.fs
       /\ lastw' = IF s.ret.ok THEN [lastw EXCEPT !["max_perf_pct"] = p] ELSE lastw
       /\ Continue(p, s.ret,
                   WriteOp("max_perf_pct", Format(cur[p].rec.min_perf_pct), s.ret.ok), "sv_nt")
    /\ UNCHANGED <<dir, handle, acc>>

\* PState::set_values, line 135: self.set_max_perf_pct(values.max_perf_pct)?
SetValuesMax(p) ==
    /\ pc[p] = "sv_max"
    /\ LET s == SetMaxPerfPct(files, cur[p].rec.max_perf_pct) IN
       /\ files' = s.fs
       /\ lastw' = IF s.ret.ok THEN [lastw EXCEPT !["max_perf_pct"] = p] ELSE lastw
       /\ Continue(p, s.ret,
                   WriteOp("max_perf_pct", Format(cur[p].rec.max_perf_pct), s.ret.ok), "sv_nt")
    /\ UNCHANGED <<dir, handle, acc>>

\* PState::set_values, line 136: self.set_no_turbo(values.no_turbo)
SetValuesNt(p) ==
    /\ pc[p] = "sv_nt"
    /\ LET s == SetNoTurbo(files, cur[p].rec.no_turbo) IN
       /\ files' = s.fs
       /\ lastw' = IF s.ret.ok THEN [lastw EXCEPT !["no_turbo"] = p] ELSE lastw
       /\ Finish(p, s.ret,
                 WriteOp("no_turbo", FormatBool(cur[p].rec.no_turbo), s.ret.ok))
    /\ UNCHANGED <<dir, handle, acc>>

\* ------------------------------------------------------ specifications ---

\* What the kernel shows for a value: its decimal text and a newline.
KernelText(n) == Format(n) \o <<"\n">>

Present(t) == [mode |-> "rw", data |-> t]

Absent == [mode |-> "absent", data |-> <<>>]

InitCallers ==
    /\ handle = [p \in Callers |-> FALSE]
    /\ pc = [p \in Callers |-> "idle"]
    /\ cur = [p \in Callers |-> NoCall]
    /\ acc = [p \in Callers |-> NoRec]
    /\ ret = [p \in Callers |-> NoRet]
    /\ pre = [p \in Callers |-> Snapshot]
    /\ log = [p \in Callers |-> <<>>]
    /\ prev = [p \in Callers |-> [call |-> NoCall, ret |-> NoRet]]
    /\ ncalls = [p \in Callers |-> 0]
    /\ lastw = [f \in Fields |-> "none"]

\* -- Spec: one caller, every method, any number of calls in sequence. ------

\* Arguments of the setters.
Vals == {0, 7, 42, 100, 255}

\* Arguments of set_values.
Recs == {PStateValues(7, 100, TRUE), PStateValues(42, 7, FALSE), PStateValues(100, 42, TRUE)}

\* Initial contents of the percentage files and of no_turbo.
PctTexts == {KernelText(0), KernelText(100), <<"x">>}

FlagTexts == {KernelText(0), KernelText(1)}

FileStates(texts) ==
    {Absent} \cup {[mode |-> m, data |-> t] : m \in {"rw", "ro"}, t \in texts}

Init ==
    /\ dir \in {"dir", "file", "absent"}
    /\ files \in [Fields -> FileStates(PctTexts \cup FlagTexts)]
    /\ dir # "dir" => \A f \in Fields : files[f] = Absent
    /\ files["min_perf_pct"].data \in PctTexts \cup {<<>>}
    /\ files["max_perf_pct"].data \in PctTexts \cup {<<>>}
    /\ files["no_turbo"].data \in FlagTexts \cup {<<>>}
    /\ InitCallers

Next ==
    \/ New("c1")
    \/ GetMin("c1")
    \/ GetMax("c1")
    \/ GetNoTurbo("c1")
    \/ \E v \in Vals : SetMin("c1", v)
    \/ \E v \in Vals : SetMax("c1", v)
    \/ \E b \in BOOLEAN : SetNt("c1", b)
    \/ ValuesMin("c1")
    \/ ValuesMax("c1")
    \/ ValuesNt("c1")
    \/ \E r \in Recs : SetValuesMin("c1", r)
    \/ SetValuesMax("c1")
    \/ SetValuesNt("c1")

Spec == Init /\ [][Next]_vars

\* -- SpecParse: one getter call on a file holding any short text. ---------

Chars == {"0", "1", "2", "5", "6", "+", "-", " ", "\n", "x"}

Texts(n) == UNION {[1..k -> Chars] : k \in 0..n}

InitParse ==
    /\ dir = "dir"
    /\ \E f \in Fields, t \in Texts(MaxLen) :
          files = [g \in Fields |-> Present(IF g = f THEN t ELSE KernelText(0))]
    /\ InitCallers

NextParse ==
    \/ New("c1")
    \/ ncalls["c1"] = 0 /\ GetMin("c1")
    \/ ncalls["c1"] = 0 /\ GetMax("c1")
    \/ ncalls["c1"] = 0 /\ GetNoTurbo("c1")

SpecParse == InitParse /\ [][NextParse]_vars

\* -- SpecTurbo: no_turbo holds any value of a u8; the caller reads and sets it.

InitTurbo ==
    /\ dir = "dir"
    /\ \E n \in 0..U8Max, nl \in {<<>>, <<"\n">>} :
          files = [g \in Fields |->
                      Present(IF g = "no_turbo" THEN Format(n) \o nl ELSE KernelText(0))]
    /\ InitCallers

NextTurbo ==
    \/ New("c1")
    \/ GetNoTurbo("c1")
    \/ \E b \in BOOLEAN : SetNt("c1", b)

SpecTurbo == InitTurbo /\ [][NextTurbo]_vars

\* -- SpecRace: two callers, each makes one aggregate call, on files that ---
\* -- hold a record; their file operations interleave freely. ---------------

RaceRecs ==
    {PStateValues(10, 50, FALSE), PStateValues(20, 60, TRUE), PStateValues(7, 100, TRUE)}

\* The files as the kernel shows record r.
FilesOf(r) ==
    [g \in Fields |->
        Present(IF g = "min_perf_pct" THEN KernelText(r.min_perf_pct)
                ELSE IF g = "max_perf_pct" THEN KernelText(r.max_perf_pct)
                ELSE KernelText(IF r.no_turbo THEN 1 ELSE 0))]

InitRace ==
    /\ dir = "dir"
    /\ \E r \in RaceRecs : files = FilesOf(r)
    /\ InitCallers

NextRace ==
    \E p \in Callers :
        \/ New(p)
        \/ ncalls[p] = 0 /\ ValuesMin(p)
        \/ ValuesMax(p)
        \/ ValuesNt(p)
        \/ ncalls[p] = 0 /\ \E r \in RaceRecs : SetValuesMin(p, r)
        \/ SetValuesMax(p)
        \/ SetValuesNt(p)

SpecRace == InitRace /\ [][NextRace]_vars

\* ---------------------------------------------------- claims: helpers ----

\* Caller p's last call was `op` and has returned.
Returned(p, op) == cur[p].op = op /\ pc[p] = "idle"

Writable(fs, f) == fs[f].mode = "rw"

\* What the three getters return on fs, as a record (all three succeed).
Readable(fs) == MinPerfPct(fs).ok /\ MaxPerfPct(fs).ok /\ NoTurbo(fs).ok

Readback(fs) == PStateValues(MinPerfPct(fs).num, MaxPerfPct(fs).num, NoTurbo(fs).flag)

\* ------------------------------------------------------------- C4 --------

\* C4: new() returns a handle if and only if the path is a directory when it
\* is called; otherwise (absent, or present but no directory) it returns
\* NotFound and the caller holds no handle.
C4_NewIffDirectory ==
    \A p \in Callers :
        Returned(p, "new") =>
            /\ ret[p].ok <=> pre[p].dir = "dir"
            /\ handle[p] <=> pre[p].dir = "dir"
            /\ ~ret[p].ok => ret[p] = Err("NotFound", "none", -1, FALSE)

\* C4 witness: the path exists but is no directory, and new() said NotFound.
C4_Witness ==
    /\ Returned("c1", "new")
    /\ pre["c1"].dir = "file"
    /\ ret["c1"].err = "NotFound"
    /\ ~handle["c1"]

\* ------------------------------------------------------------- C7 --------

SetterField(op) ==
    IF op = "set_min_perf_pct" THEN "min_perf_pct"
    ELSE IF op = "set_max_perf_pct" THEN "max_perf_pct"
    ELSE "no_turbo"

SetterError(op) ==
    IF op = "set_min_perf_pct" THEN "SetMinPerf"
    ELSE IF op = "set_max_perf_pct" THEN "SetMaxPerf"
    ELSE "SetNoTurbo"

Setters == {"set_min_perf_pct", "set_max_perf_pct", "set_no_turbo"}

\* C7: a setter whose target file is absent (or cannot be opened for writing)
\* fails with its own Set* variant carrying exactly the caller's value, does
\* not create the file, and leaves all three files as they were.
C7_SetterNeverCreates ==
    \A p \in Callers : \A op \in Setters :
        (Returned(p, op) /\ ~Writable(pre[p].files, SetterField(op))) =>
            /\ ~ret[p].ok
            /\ ret[p].err = SetterError(op)
            /\ ret[p].kind = (IF pre[p].files[SetterField(op)].mode = "absent"
                              THEN "NotFound" ELSE "PermissionDenied")
            /\ ret[p].num = cur[p].num
            /\ ret[p].flag = cur[p].flag
            /\ files = pre[p].files

\* C7 witness: set_min_perf_pct(42) on an absent file failed with
\* SetMinPerf(42, NotFound) and the file is still absent.
C7_Witness ==
    /\ Returned("c1", "set_min_perf_pct")
    /\ cur["c1"].num = 42
    /\ pre["c1"].files["min_perf_pct"].mode = "absent"
    /\ ret["c1"] = Err("SetMinPerf", "NotFound", 42, FALSE)
    /\ files["min_perf_pct"].mode = "absent"

\* ------------------------------------------------------------- C1 --------

\* C1: round trip.  After a successful setter call with a legal value v
\* (0..100 for the percentages, a boolean for no_turbo), whatever the file
\* held before, the matching getter called next returns v.
C1_RoundTrip ==
    \A p \in Callers :
        /\ (/\ Returned(p, "min_perf_pct")
            /\ prev[p].call.op = "set_min_perf_pct" /\ prev[p].ret.ok
            /\ prev[p].call.num \in 0..100)
           => ret[p] = OkNum(prev[p].call.num)
        /\ (/\ Returned(p, "max_perf_pct")
            /\ prev[p].call.op = "set_max_perf_pct" /\ prev[p].ret.ok
            /\ prev[p].call.num \in 0..100)
           => ret[p] = OkNum(prev[p].call.num)
        /\ (/\ Returned(p, "no_turbo")
            /\ prev[p].call.op = "set_no_turbo" /\ prev[p].ret.ok)
           => ret[p] = OkFlag(prev[p].call.flag)

\* ------------------------------------------------------------- C2 --------

MinWrite(v, ok) == WriteOp("min_perf_pct", Format(v.min_perf_pct), ok)

MaxWrite(v, ok) == WriteOp("max_perf_pct", Format(v.max_perf_pct), ok)

NtWrite(v, ok) == WriteOp("no_turbo", FormatBool(v.no_turbo), ok)

\* C2: set_values(v) writes min_perf_pct, max_perf_pct, no_turbo in this
\* order and stops at the first failing write, whose error it returns: if
\* the min write fails the other two files are never written; if the max
\* write fails, min_perf_pct holds the new value and no_turbo its previous
\* contents.
C2_SetValuesShortCircuit ==
    \A p \in Callers :
        Returned(p, "set_values") =>
            LET v == cur[p].rec
                fs0 == pre[p].files
            IN  IF ~Writable(fs0, "min_perf_pct")
                THEN /\ log[p] = <<MinWrite(v, FALSE)>>
                     /\ ret[p].err = "SetMinPerf" /\ ret[p].num = v.min_perf_pct
                     /\ files = fs0
                ELSE IF ~Writable(fs0, "max_perf_pct")
                THEN /\ log[p] = <<MinWrite(v, TRUE), MaxWrite(v, FALSE)>>
                     /\ ret[p].err = "SetMaxPerf" /\ ret[p].num = v.max_perf_pct
                     /\ MinPerfPct(files) = OkNum(v.min_perf_pct)
                     /\ files["max_perf_pct"] = fs0["max_perf_pct"]
                     /\ files["no_turbo"] = fs0["no_turbo"]
                ELSE IF ~Writable(fs0, "no_turbo")
                THEN /\ log[p] = <<MinWrite(v, TRUE), MaxWrite(v, TRUE), NtWrite(v, FALSE)>>
                     /\ ret[p].err = "SetNoTurbo" /\ ret[p].flag = v.no_turbo
                     /\ files["no_turbo"] = fs0["no_turbo"]
                ELSE /\ log[p] = <<MinWrite(v, TRUE), MaxWrite(v, TRUE), NtWrite(v, TRUE)>>
                     /\ ret[p] = OkUnit

\* The part of C2 about order and short-circuit alone, with "the new value"
\* read as "what the min write left in the file".
SetValuesOrder ==
    \A p \in Callers :
        Returned(p, "set_values") =>
            LET v == cur[p].rec
                fs0 == pre[p].files
                wmin == WriteFile(fs0, "min_perf_pct", Format(v.min_perf_pct))
            IN  IF ~Writable(fs0, "min_perf_pct")
                THEN /\ log[p] = <<MinWrite(v, FALSE)>>
                     /\ ret[p].err = "SetMinPerf"
                     /\ files = fs0
                ELSE IF ~Writable(fs0, "max_perf_pct")
                THEN /\ log[p] = <<MinWrite(v, TRUE), MaxWrite(v, FALSE)>>
                     /\ ret[p].err = "SetMaxPerf"
                     /\ files = wmin.fs
                ELSE IF ~Writable(fs0, "no_turbo")
                THEN /\ log[p] = <<MinWrite(v, TRUE), MaxWrite(v, TRUE), NtWrite(v, FALSE)>>
                     /\ ret[p].err = "SetNoTurbo"
                     /\ files["no_turbo"] = fs0["no_turbo"]
                ELSE /\ log[p] = <<MinWrite(v, TRUE), MaxWrite(v, TRUE), NtWrite(v, TRUE)>>
                     /\ ret[p] = OkUnit

\* ------------------------------------------------------------- C3 --------

\* C3: values() reads min_perf_pct, max_perf_pct, no_turbo in this order and
\* nothing else; the first read that fails ends the call with that getter's
\* own error, no later read is made and no record is returned; when all
\* three succeed the record holds the three getters' results.
C3_ValuesInOrder ==
    \A p \in Callers :
        Returned(p, "values") =>
            LET fs0 == pre[p].files
                m == MinPerfPct(fs0)
                x == MaxPerfPct(fs0)
                t == NoTurbo(fs0)
            IN  /\ files = fs0
                /\ IF ~m.ok
                   THEN /\ log[p] = <<ReadOp("min_perf_pct", FALSE)>>
                        /\ ret[p] = m /\ ret[p].err = "GetMinPerf"
                   ELSE IF ~x.ok
                   THEN /\ log[p] = <<ReadOp("min_perf_pct", TRUE),
                                      ReadOp("max_perf_pct", FALSE)>>
                        /\ ret[p] = x /\ ret[p].err = "GetMaxPerf"
                   ELSE IF ~t.ok
                   THEN /\ log[p] = <<ReadOp("min_perf_pct", TRUE),
                                      ReadOp("max_perf_pct", TRUE),
                                      ReadOp("no_turbo", FALSE)>>
                        /\ ret[p] = t /\ ret[p].err = "GetNoTurbo"
                   ELSE /\ log[p] = <<ReadOp("min_perf_pct", TRUE),
                                      ReadOp("max_perf_pct", TRUE),
                                      ReadOp("no_turbo", TRUE)>>
                        /\ ret[p] = OkRec(PStateValues(m.num, x.num, t.flag))
                /\ ~ret[p].ok => ret[p].rec = NoRec

\* C3 witness: min_perf_pct was read, the read of max_perf_pct failed, and
\* values() returned GetMaxPerf without reading no_turbo, which would have
\* failed too.
C3_Witness ==
    /\ Returned("c1", "values")
    /\ ret["c1"].err = "GetMaxPerf"
    /\ Len(log["c1"]) = 2
    /\ ~NoTurbo(files).ok

\* ------------------------------------------------------------- C9 --------

WriteCalls == Setters \cup {"set_values"}

\* C9: a write call repeated with the same argument, both calls succeeding,
\* leaves the three files as the first call left them, and the getters
\* return after the second call what they returned after the first.
C9_Idempotent ==
    \A p \in Callers : \A op \in WriteCalls :
        (/\ Returned(p, op)
         /\ prev[p].call = cur[p]
         /\ prev[p].ret.ok /\ ret[p].ok)
        => /\ files = pre[p].files
           /\ MinPerfPct(files) = MinPerfPct(pre[p].files)
           /\ MaxPerfPct(files) = MaxPerfPct(pre[p].files)
           /\ NoTurbo(files) = NoTurbo(pre[p].files)

\* C9 witness: set_values(r) succeeded twice in a row, on files whose text
\* was longer than the first call's writes.
C9_Witness ==
    /\ Returned("c1", "set_values")
    /\ prev["c1"].call = cur["c1"]
    /\ prev["c1"].ret.ok /\ ret["c1"].ok
    /\ files["min_perf_pct"].data = <<"7", "0", "0", "\n">>

\* ------------------------------------------------------------- C6 --------

\* C6: no_turbo() returns true for every stored value 1..255 and false only
\* for 0; set_no_turbo(true) writes exactly the bytes "1" and
\* set_no_turbo(false) exactly "0".
C6_NoTurboFlag ==
    \A p \in Callers :
        /\ Returned(p, "no_turbo") =>
              \A n \in 0..U8Max :
                  files["no_turbo"].data \in {Format(n), KernelText(n)}
                      => ret[p] = OkFlag(n > 0)
        /\ Returned(p, "set_no_turbo") =>
              log[p] = <<WriteOp("no_turbo",
                                 IF cur[p].flag THEN <<"1">> ELSE <<"0">>,
                                 TRUE)>>

\* C6 witness: the file holds 255 and no_turbo() returned true.
C6_Witness ==
    /\ Returned("c1", "no_turbo")
    /\ files["no_turbo"].data = KernelText(255)
    /\ ret["c1"] = OkFlag(TRUE)

\* ------------------------------------------------------------- C5 --------

\* The text between the first and the last character of d that is no
\* whitespace: d without the whitespace around it.
Core(d) ==
    LET black == {i \in 1..Len(d) : d[i] \notin WhiteSpace} IN
    IF black = {} THEN <<>>
    ELSE SubSeq(d, CHOOSE i \in black : \A j \in black : i <= j,
                   CHOOSE i \in black : \A j \in black : j <= i)

\* The number a run of decimal digits denotes.
RECURSIVE Pow10(_)
Pow10(k) == IF k = 0 THEN 1 ELSE 10 * Pow10(k - 1)

RECURSIVE Denotes(_)
Denotes(t) ==
    IF t = <<>> THEN 0
    ELSE DigitVal(Head(t)) * Pow10(Len(t) - 1) + Denotes(Tail(t))

\* t is one or more ASCII digits (leading zeros allowed), after at most one
\* "+", and denotes a number of 0..255.
Numeral(t) ==
    LET body == IF t # <<>> /\ Head(t) = "+" THEN Tail(t) ELSE t IN
    /\ body # <<>>
    /\ \A i \in 1..Len(body) : body[i] \in Digits
    /\ Denotes(body) <= U8Max

NumeralValue(t) == Denotes(IF Head(t) = "+" THEN Tail(t) ELSE t)

GetterField(op) ==
    IF op = "min_perf_pct" THEN "min_perf_pct"
    ELSE IF op = "max_perf_pct" THEN "max_perf_pct"
    ELSE "no_turbo"

GetterError(op) ==
    IF op = "min_perf_pct" THEN "GetMinPerf"
    ELSE IF op = "max_perf_pct" THEN "GetMaxPerf"
    ELSE "GetNoTurbo"

GetterOk(op, n) == IF op = "no_turbo" THEN OkFlag(n > 0) ELSE OkNum(n)

Getters == {"min_perf_pct", "max_perf_pct", "no_turbo"}

\* C5 as stated: a getter returns n when the file holds the decimal text of
\* an n in 0..255 with optional whitespace around it, and its own Get*
\* variant wrapping InvalidData for every other content.
C5_Original ==
    \A p \in Callers : \A op \in Getters :
        Returned(p, op) =>
            LET t == Core(files[GetterField(op)].data) IN
            IF \E n \in 0..U8Max : t = Format(n)
            THEN \A n \in 0..U8Max : t = Format(n) => ret[p] = GetterOk(op, n)
            ELSE ret[p] = Err(GetterError(op), "InvalidData", -1, FALSE)

\* C5, amended: a getter returns n when the file holds, with optional
\* whitespace around it, ASCII digits denoting an n in 0..255, leading zeros
\* and one leading "+" allowed; for every other content it returns its own
\* Get* variant wrapping InvalidData (no panic, no default value).
C5_MalformedIsInvalidData ==
    \A p \in Callers : \A op \in Getters :
        Returned(p, op) =>
            LET t == Core(files[GetterField(op)].data) IN
            IF Numeral(t)
            THEN ret[p] = GetterOk(op, NumeralValue(t))
            ELSE ret[p] = Err(GetterError(op), "InvalidData", -1, FALSE)

\* C5 witness: min_perf_pct() failed with GetMinPerf(InvalidData) on "256".
C5_Witness ==
    /\ Returned("c1", "min_perf_pct")
    /\ files["min_perf_pct"].data = <<"2", "5", "6">>
    /\ ret["c1"] = Err("GetMinPerf", "InvalidData", -1, FALSE)

\* ------------------------------------------------------------- C8 --------

\* The bytes set_values(r) writes to file f.
FieldText(r, f) ==
    IF f = "min_perf_pct" THEN Format(r.min_perf_pct)
    ELSE IF f = "max_perf_pct" THEN Format(r.max_perf_pct)
    ELSE FormatBool(r.no_turbo)

StartsWith(d, t) == Len(d) >= Len(t) /\ SubSeq(d, 1, Len(t)) = t

BothSetValuesOk ==
    \A p \in Callers : Returned(p, "set_values") /\ ret[p].ok

\* C8: set_values is not atomic across the three files.  When two callers'
\* set_values(a) and set_values(b) have both returned success, each file is
\* decided on its own, by whichever caller wrote that file last (the file
\* starts with that caller's bytes), and nothing makes the three last
\* writers the same caller: C8_Witness is the interleaving in which the
\* files hold a record that is neither a nor b.
C8_LastWriterPerFile ==
    BothSetValuesOk =>
        \A f \in Fields :
            /\ lastw[f] \in Callers
            /\ StartsWith(files[f].data, FieldText(cur[lastw[f]].rec, f))

\* C8 witness: both calls returned success, min_perf_pct is c1's and
\* max_perf_pct is c2's, and the files read back as neither caller's record.
C8_Witness ==
    /\ BothSetValuesOk
    /\ Readable(files)
    /\ Readback(files).min_perf_pct = cur["c1"].rec.min_perf_pct
    /\ Readback(files).max_perf_pct = cur["c2"].rec.max_perf_pct
    /\ Readback(files) # cur["c1"].rec
    /\ Readback(files) # cur["c2"].rec

\* ------------------------------------------------------------- C10 -------

\* The files after the three writes of set_values(r) on fs, with no other
\* writer.
SetAll(fs, r) ==
    SetNoTurbo(
        SetMaxPerfPct(SetMinPerfPct(fs, r.min_perf_pct).fs, r.max_perf_pct).fs,
        r.no_turbo).fs

\* How many fields of records r1 and r2 differ.
Differing(r1, r2) ==
    Cardinality({f \in Fields : r1[f] # r2[f]})

====
